---- MODULE Spec2Model ----
(***************************************************************************)
(* A model of garmin-pr-plan: the workout upload loop                      *)
(* (GarminClient.push_all_workouts), the duration and target parsers       *)
(* (GarminClient._parse_duration, GarminClient._parse_target), the fitness *)
(* summary (get_activities + analyze_fitness) and the top-level run        *)
(* (main).                                                                 *)
(*                                                                         *)
(* Texts are sequences of one-character strings.  Real numbers are exact   *)
(* decimal or rational values carried as integers (a mantissa and a power  *)
(* of ten, or a numerator and a denominator); floating-point rounding is   *)
(* not modelled.                                                           *)
(***************************************************************************)
EXTENDS Integers, Sequences, FiniteSets, TLC

VARIABLES
    plan,           \* training_plan: the sequence of workouts handed to push_all_workouts
    pc,             \* position inside push_all_workouts
    i,              \* 1-based index of the workout being processed (0 before the loop)
    attempt,        \* the inner loop's `attempt` (0..2)
    workout_id,     \* last value returned by create_workout
    created_count,  \* created_count
    failed,         \* failed: sequence of <<name, error message>>
    calls,          \* history: create/schedule calls made for the current workout
    hist,           \* history: one summary per workout already finished
    dtext,          \* _parse_duration: the `duration` argument
    dres,           \* _parse_duration: its outcome (a value returned or an exception raised)
    ttext,          \* _parse_target: the `target` argument
    tres,           \* _parse_target: its outcome (a value returned or an exception raised)
    raw,            \* the activity-history endpoint's response (get_activities_by_date)
    activities,     \* get_activities' result (running_activities)
    metrics,        \* analyze_fitness' result (fitness_data)
    mpc,            \* position inside main
    env,            \* the environment variables that are set
    client,         \* whether GarminClient.client is set (an authenticated session)
    ending          \* how the run ended: a fatal message and exit code, the summary, or
                    \* an exception that left main

pushVars == <<plan, pc, i, attempt, workout_id, created_count, failed, calls, hist>>

durVars == <<dtext, dres>>

tgtVars == <<ttext, tres>>

fitVars == <<raw, activities, metrics>>

mainVars == <<mpc, env, client, ending>>

vars == <<pushVars, durVars, tgtVars, fitVars, mainVars>>

-----------------------------------------------------------------------------
(* Bounds of the model *)

MaxPlan == 2

\* longest number part of a generated duration text
MaxNumLen == 3

\* longest segment of a generated clock text
MaxSegLen == 2

\* most digits in the minutes and in the seconds of a generated pace text
MaxPaceDigits == 2

\* most activities in the history endpoint's response
MaxActivities == 2

-----------------------------------------------------------------------------
(* push_all_workouts *)

\* for attempt in range(3)
MaxAttemptsTwo == 3 - 1

MaxAttempts == 3

NoName == "<absent>"
NoDate == "<absent>"
NoId == "<none>"

Names == {"Tempo", NoName}
Dates == {"2026-01-05", NoDate}
WorkoutIds == {"w101", "w102"}
Errors == {"timeout", "http 500"}

Workouts == [name : Names, date : Dates]

BoundedSeq(S, n) == UNION {[1..k -> S] : k \in 0..n}

Plans == BoundedSeq(Workouts, MaxPlan)

\* workout.get('name', 'Unknown')
NameOf(w) == IF w.name = NoName THEN "Unknown" ELSE w.name

\* truthiness of workout.get("date")
HasDate(w) == w.date # NoDate

\* truthiness of workout_id
Truthy(id) == id # NoId

NoError == "<none>"

\* one entry of the call history
Call(op, ok, id, date, err) ==
    [op |-> op, att |-> attempt, ok |-> ok, id |-> id, date |-> date, err |-> err]

\* history: what happened to workout number i (its outcome and its create calls)
Summary(ok, log) ==
    [w |-> i,
     ok |-> ok,
     creates |-> Cardinality({k \in 1..Len(log) : log[k].op = "create"}),
     createOks |-> Cardinality({k \in 1..Len(log) : log[k].op = "create" /\ log[k].ok})]

InitPush ==
    /\ plan \in Plans
    /\ pc = "loop"
    /\ i = 0
    /\ attempt = 0
    /\ workout_id = NoId
    /\ created_count = 0
    /\ failed = <<>>
    /\ calls = <<>>
    /\ hist = <<>>

\* push_all_workouts not running
IdlePush ==
    /\ plan = <<>>
    /\ pc = "idle"
    /\ i = 0
    /\ attempt = 0
    /\ workout_id = NoId
    /\ created_count = 0
    /\ failed = <<>>
    /\ calls = <<>>
    /\ hist = <<>>

MoreWorkoutsUntilFailure == i < Len(plan) /\ failed = <<>>

\* the outer loop goes on while the plan has a workout left, whatever failed before
MoreWorkouts == i < Len(plan)

\* for i, workout in enumerate(training_plan): ... / return created_count
LoopNext ==
    /\ pc = "loop"
    /\ IF MoreWorkouts
         THEN /\ i' = i + 1
              /\ attempt' = 0
              /\ calls' = <<>>
              /\ pc' = "create"
         ELSE /\ pc' = "done"
              /\ UNCHANGED <<i, attempt, calls>>
    /\ UNCHANGED <<plan, workout_id, created_count, failed, hist>>

\* created_count += 1; success = True; break
Succeed(log) ==
    /\ created_count' = created_count + 1
    /\ hist' = Append(hist, Summary(TRUE, log))
    /\ pc' = "loop"
    /\ UNCHANGED <<attempt, failed>>

\* the attempt on which a failure is recorded: if attempt == 2
LastAttempt == 2

\* failed.append((name, str(e))) on the last attempt only
RecordedEveryAttempt(e, log) == Append(failed, <<NameOf(plan[i]), e>>)

Recorded(e, log) ==
    IF attempt = LastAttempt THEN Append(failed, <<NameOf(plan[i]), e>>) ELSE failed

\* except Exception as e: ...; then the next round of `for attempt in range(3)`,
\* or, the range exhausted, the next workout
Except(e, log) ==
    /\ failed' = Recorded(e, log)
    /\ IF attempt + 1 < MaxAttempts
         THEN /\ attempt' = attempt + 1
              /\ pc' = "create"
              /\ UNCHANGED hist
         ELSE /\ hist' = Append(hist, Summary(FALSE, log))
              /\ pc' = "loop"
              /\ UNCHANGED attempt
    /\ UNCHANGED created_count

\* scheduling every dated workout, whatever identifier create returned
NeedsScheduleIfDated(id, w) == HasDate(w)

\* if workout_id and workout.get("date"):
NeedsSchedule(id, w) == Truthy(id) /\ HasDate(w)

\* workout_id = self.create_workout(workout) returns
CreateOk ==
    /\ pc = "create"
    /\ \E id \in WorkoutIds \cup {NoId} :
         LET log == Append(calls, Call("create", TRUE, id, NoDate, NoError)) IN
         /\ workout_id' = id
         /\ calls' = log
         /\ IF NeedsSchedule(id, plan[i])
              THEN /\ pc' = "schedule"
                   /\ UNCHANGED <<attempt, created_count, failed, hist>>
              ELSE Succeed(log)
    /\ UNCHANGED <<plan, i>>

\* self.create_workout(workout) raises
CreateFail ==
    /\ pc = "create"
    /\ \E e \in Errors :
         LET log == Append(calls, Call("create", FALSE, NoId, NoDate, e)) IN
         /\ calls' = log
         /\ Except(e, log)
    /\ UNCHANGED <<plan, i, workout_id>>

\* self.schedule_workout(workout_id, workout["date"]) returns
ScheduleOk ==
    /\ pc = "schedule"
    /\ LET log == Append(calls, Call("schedule", TRUE, workout_id, plan[i].date, NoError)) IN
         /\ calls' = log
         /\ Succeed(log)
    /\ UNCHANGED <<plan, i, workout_id>>

\* self.schedule_workout(workout_id, workout["date"]) raises
ScheduleFail ==
    /\ pc = "schedule"
    /\ \E e \in Errors :
         LET log == Append(calls, Call("schedule", FALSE, workout_id, plan[i].date, e)) IN
         /\ calls' = log
         /\ Except(e, log)
    /\ UNCHANGED <<plan, i, workout_id>>

-----------------------------------------------------------------------------
(* Texts and numbers *)

Digits == {"0", "1", "2", "3", "4", "5", "6", "7", "8", "9"}

UpperCase == <<"A", "B", "C", "D", "E", "F", "G", "H", "I", "J", "K", "L", "M",
               "N", "O", "P", "Q", "R", "S", "T", "U", "V", "W", "X", "Y", "Z">>

LowerCase == <<"a", "b", "c", "d", "e", "f", "g", "h", "i", "j", "k", "l", "m",
               "n", "o", "p", "q", "r", "s", "t", "u", "v", "w", "x", "y", "z">>

\* str.lower(), one character
LowerChar(c) ==
    IF \E k \in 1..26 : UpperCase[k] = c
      THEN LowerCase[CHOOSE k \in 1..26 : UpperCase[k] = c]
      ELSE c

\* str.lower()
Lower(t) == [k \in 1..Len(t) |-> LowerChar(t[k])]

\* whitespace, as str.strip() and the pattern \s see it
IsSpace(c) == c \in {" ", "\t"}

\* str.strip()
Strip(t) ==
    LET keep == {k \in 1..Len(t) : ~IsSpace(t[k])} IN
    IF keep = {} THEN <<>>
    ELSE SubSeq(t, CHOOSE k \in keep : \A j \in keep : k <= j,
                   CHOOSE k \in keep : \A j \in keep : k >= j)

\* length of the longest prefix of t made of characters of S (a greedy [S]* match)
PrefixLen(t, S) == Cardinality({k \in 1..Len(t) : \A j \in 1..k : t[j] \in S})

Drop(t, n) == SubSeq(t, n + 1, Len(t))

DigitVal(c) ==
    CASE c = "0" -> 0 [] c = "1" -> 1 [] c = "2" -> 2 [] c = "3" -> 3 [] c = "4" -> 4
      [] c = "5" -> 5 [] c = "6" -> 6 [] c = "7" -> 7 [] c = "8" -> 8 [] c = "9" -> 9

RECURSIVE DigitsVal(_)
\* the number a string of decimal digits denotes
DigitsVal(t) ==
    IF t = <<>> THEN 0
    ELSE 10 * DigitsVal(SubSeq(t, 1, Len(t) - 1)) + DigitVal(t[Len(t)])

RECURSIVE Pow10(_)
Pow10(n) == IF n = 0 THEN 1 ELSE 10 * Pow10(n - 1)

\* int(s) of a str: surrounding whitespace is ignored, then decimal digits only
\* (signs and underscores are outside the texts considered)
IntOf(t) ==
    LET s == Strip(t) IN
    IF s # <<>> /\ \A k \in 1..Len(s) : s[k] \in Digits
      THEN [ok |-> TRUE, val |-> DigitsVal(s)]
      ELSE [ok |-> FALSE, val |-> 0]

\* float(s) of a text of digits and dots: the decimal mant / 10^exp, or ValueError
\* when it has no digit or more than one dot
FloatOf(t) ==
    LET dots == {k \in 1..Len(t) : t[k] = "."}
        digs == SelectSeq(t, LAMBDA c : c \in Digits)
    IN  IF Cardinality(dots) > 1 \/ digs = <<>>
          THEN [ok |-> FALSE, mant |-> 0, exp |-> 0]
          ELSE [ok |-> TRUE, mant |-> DigitsVal(digs),
                exp |-> IF dots = {} THEN 0 ELSE Len(t) - (CHOOSE k \in dots : TRUE)]

-----------------------------------------------------------------------------
(* _parse_duration *)

DistUnits ==
    {<<"m">>, <<"k", "m">>, <<"m", "i">>, <<"m", "i", "l", "e">>,
     <<"m", "i", "l", "e", "s">>}

SecondUnits ==
    {<<"s", "e", "c">>, <<"s", "e", "c", "s">>, <<"s", "e", "c", "o", "n", "d">>,
     <<"s", "e", "c", "o", "n", "d", "s">>, <<"s">>}

TimeUnits ==
    SecondUnits \cup
    {<<"m", "i", "n">>, <<"m", "i", "n", "s">>, <<"m", "i", "n", "u", "t", "e">>,
     <<"m", "i", "n", "u", "t", "e", "s">>}

\* re.match(r'^([\d.]+)\s*(<units>)$', t)
MatchNumberUnit(t, units) ==
    LET n == PrefixLen(t, Digits \cup {"."})
        rest == Drop(t, n)
        unit == Drop(rest, PrefixLen(rest, {" ", "\t"}))
    IN  [matched |-> n >= 1 /\ unit \in units, num |-> SubSeq(t, 1, n), unit |-> unit]

\* outcomes: ({"id": 3, "key": "distance"}, meters), ({"id": 2, "key": "time"}, seconds)
\* or an exception; a value is mant / 10^exp
Distance(mant, exp) == [kind |-> "distance", mant |-> mant, exp |-> exp, exc |-> "none"]
Time(seconds) == [kind |-> "time", mant |-> seconds, exp |-> 0, exc |-> "none"]
Raises(exc) == [kind |-> "raise", mant |-> 0, exp |-> 0, exc |-> exc]
NotCalled == [kind |-> "pending", mant |-> 0, exp |-> 0, exc |-> "none"]

\* duration.split(':')
SplitColon(t) ==
    LET cols == {k \in 1..Len(t) : t[k] = ":"}
        first == CHOOSE k \in cols : \A j \in cols : k <= j
        after == cols \ {first}
        second == IF after = {} THEN Len(t) + 1
                  ELSE CHOOSE k \in after : \A j \in after : k <= j
    IN  [n |-> Cardinality(cols) + 1,
         p0 |-> SubSeq(t, 1, first - 1),
         p1 |-> SubSeq(t, first + 1, second - 1)]

\* the distance branch: meters = value, value * 1000 or value * 1609.34
DistanceBranch(num, unit) ==
    LET v == FloatOf(num) IN
    IF ~v.ok THEN Raises("ValueError")
    ELSE IF unit = <<"m">> THEN Distance(v.mant, v.exp)
    ELSE IF unit = <<"k", "m">> THEN Distance(v.mant * 1000, v.exp)
    ELSE Distance(v.mant * 160934, v.exp + 2)

\* the time-unit branch: int(value) for seconds, int(value * 60) for minutes
TimeBranch(num, unit) ==
    LET v == FloatOf(num) IN
    IF ~v.ok THEN Raises("ValueError")
    ELSE IF unit \in SecondUnits THEN Time(v.mant \div Pow10(v.exp))
    ELSE Time((v.mant * 60) \div Pow10(v.exp))

\* the ':' branch: int(parts[0]) * 60 + int(parts[1]), or int(parts[0]) * 60 when
\* there are not exactly two parts
ClockBranch(t) ==
    LET parts == SplitColon(t)
        minutes == IntOf(parts.p0)
        seconds == IF parts.n = 2 THEN IntOf(parts.p1) ELSE [ok |-> TRUE, val |-> 0]
    IN  IF ~minutes.ok \/ ~seconds.ok THEN Raises("ValueError")
        ELSE Time(minutes.val * 60 + seconds.val)

InfWords == {<<"i", "n", "f">>, <<"i", "n", "f", "i", "n", "i", "t", "y">>}

\* the last branch: int(float(duration)) * 60, ValueError -> 600.  int(inf) raises
\* OverflowError, which the handler does not catch.  (Signs, exponents and
\* underscores are outside the texts considered.)
BareBranch(t) ==
    IF t \in InfWords THEN Raises("OverflowError")
    ELSE IF t # <<>> /\ \A k \in 1..Len(t) : t[k] \in Digits \cup {"."}
      THEN LET v == FloatOf(t) IN
           IF v.ok THEN Time((v.mant \div Pow10(v.exp)) * 60) ELSE Time(600)
      ELSE Time(600)

\* GarminClient._parse_duration
ParseDuration(text) ==
    LET duration == Lower(Strip(text))
        dist_match == MatchNumberUnit(duration, DistUnits)
        time_match == MatchNumberUnit(duration, TimeUnits)
    IN  IF dist_match.matched THEN DistanceBranch(dist_match.num, dist_match.unit)
        ELSE IF time_match.matched THEN TimeBranch(time_match.num, time_match.unit)
        ELSE IF \E k \in 1..Len(duration) : duration[k] = ":" THEN ClockBranch(duration)
        ELSE BareBranch(duration)

\* duration texts considered: a number part, optional blank, a suffix; clock texts;
\* words; the examples of the specification
NumChars == {"2", "5", "."}
NumTexts == BoundedSeq(NumChars, MaxNumLen)
Blanks == {<<>>, <<" ">>}
Suffixes ==
    {<<>>, <<"m">>, <<"k", "m">>, <<"K", "m">>, <<"m", "i">>, <<"m", "i", "l", "e", "s">>,
     <<"m", "i", "n">>, <<"M", "I", "N">>, <<"s", "e", "c">>, <<"s">>, <<"x">>,
     <<"m", "s">>}
UnitTexts == {n \o b \o u : n \in NumTexts, b \in Blanks, u \in Suffixes}

SegChars == {"1", "0", "a", " "}
Segments == BoundedSeq(SegChars, MaxSegLen)
ShortSegments == BoundedSeq(SegChars, 1)
ClockTexts ==
    {a \o <<":">> \o b : a \in Segments, b \in Segments}
    \cup {a \o <<":">> \o b \o <<":">> \o c : a \in ShortSegments, b \in ShortSegments,
                                             c \in ShortSegments}

DurationExamples ==
    {<<"8", "0", "0", "m">>, <<"2", " ", "m", "i">>, <<"1", "0", ":", "0", "0">>,
     <<"9", "0", " ", "s", "e", "c">>, <<"g", "a", "r", "b", "a", "g", "e">>,
     <<"2", ".", "5">>, <<"1", "0", ":">>, <<"a", ":", "b">>,
     <<"1", ".", "5", ":", "0", "0">>, <<"1", ".", "2", ".", "3", " ", "m", "i">>,
     <<"2", ".", "5", " ", "m", "i">>, <<" ", "4", "0", "0", "M", " ">>,
     <<"3", " ", "m", "i", "n", "u", "t", "e", "s">>, <<"i", "n", "f">>, <<"n", "a", "n">>,
     <<"I", "n", "f", "i", "n", "i", "t", "y">>, <<"1", ":", "0", "2", ":", "0", "3">>,
     <<"4", "x", "8", "0", "0", "m">>}

DurationTexts == UnitTexts \cup ClockTexts \cup DurationExamples

InitDuration ==
    /\ dtext \in DurationTexts
    /\ dres = NotCalled

IdleDuration ==
    /\ dtext = <<>>
    /\ dres = NotCalled

\* duration_type, duration_value = self._parse_duration(...)
CallParseDuration ==
    /\ dres = NotCalled
    /\ dres' = ParseDuration(dtext)
    /\ UNCHANGED dtext

-----------------------------------------------------------------------------
(* _parse_target *)

\* a speed in m/s as the fraction num / den; None is NoValue
NoValue == [num |-> 0, den |-> 0]

NoTarget == [kind |-> "no.target", low |-> NoValue, high |-> NoValue, exc |-> "none"]
PaceZone(low, high) == [kind |-> "pace.zone", low |-> low, high |-> high, exc |-> "none"]
HeartRateZone(z) ==
    [kind |-> "heart.rate.zone", low |-> [num |-> z, den |-> 1],
     high |-> [num |-> z, den |-> 1], exc |-> "none"]
TargetRaises(exc) == [kind |-> "raise", low |-> NoValue, high |-> NoValue, exc |-> exc]
TargetNotCalled == [kind |-> "pending", low |-> NoValue, high |-> NoValue, exc |-> "none"]

OpenWords == {<<"o", "p", "e", "n">>, <<"j", "o", "g">>, <<"e", "a", "s", "y">>}

PaceUnits == {<<"m", "i">>, <<"k", "m">>}

\* re.match(r'^(\d+):(\d+)(?:/?(mi|km))?$', t); unit <<>> is group(3) = None
MatchPace(t) ==
    LET n1 == PrefixLen(t, Digits)
        r1 == Drop(t, n1)
        r2 == IF r1 # <<>> /\ r1[1] = ":" THEN Drop(r1, 1) ELSE <<>>
        n2 == PrefixLen(r2, Digits)
        r3 == Drop(r2, n2)
        unit == IF r3 # <<>> /\ r3[1] = "/" THEN Drop(r3, 1) ELSE r3
    IN  [matched |-> /\ n1 >= 1
                     /\ r1 # <<>> /\ r1[1] = ":"
                     /\ n2 >= 1
                     /\ (r3 = <<>> \/ unit \in PaceUnits),
         minutes |-> SubSeq(t, 1, n1),
         seconds |-> SubSeq(r2, 1, n2),
         unit |-> IF r3 = <<>> THEN <<>> ELSE unit]

\* a pace counted per mile instead of per kilometre when no unit is given
PerKilometreOnlyIfStated(unit, minutes) == unit = <<"k", "m">>

\* if unit == 'km' or (unit is None and minutes < 10)
PerKilometre(unit, minutes) == unit = <<"k", "m">> \/ (unit = <<>> /\ minutes < 10)

\* the distance of one pace unit, in centimetres: 1000 m or 1609.34 m
UnitDistance(unit, minutes) == IF PerKilometre(unit, minutes) THEN 100000 ELSE 160934

\* meters_per_second = distance / total_seconds; pace_low = it * 1.05,
\* pace_high = it * 0.95
PaceBranch(minutes, seconds, unit) ==
    LET total_seconds == minutes * 60 + seconds IN
    IF total_seconds = 0 THEN TargetRaises("ZeroDivisionError")
    ELSE PaceZone([num |-> UnitDistance(unit, minutes) * 105, den |-> 10000 * total_seconds],
                  [num |-> UnitDistance(unit, minutes) * 95, den |-> 10000 * total_seconds])

\* "zone" in target.lower()
ContainsZone(t) ==
    \E k \in 1..(Len(t) - 3) : SubSeq(Lower(t), k, k + 3) = <<"z", "o", "n", "e">>

\* re.search(r'(\d)', target): the first digit of the text, 0 positions when none
FirstDigit(t) ==
    LET at == {k \in 1..Len(t) : t[k] \in Digits} IN
    IF at = {} THEN 0 ELSE CHOOSE k \in at : \A j \in at : k <= j

\* GarminClient._parse_target
ParseTarget(target) ==
    IF target = <<>> \/ Lower(target) \in OpenWords THEN NoTarget
    ELSE LET pace_match == MatchPace(Strip(target)) IN
         IF pace_match.matched
           THEN PaceBranch(DigitsVal(pace_match.minutes), DigitsVal(pace_match.seconds),
                           pace_match.unit)
         ELSE IF ContainsZone(target) /\ FirstDigit(target) # 0
           THEN HeartRateZone(DigitVal(target[FirstDigit(target)]))
         ELSE NoTarget

\* str.upper(), one character
UpperChar(c) ==
    IF \E k \in 1..26 : LowerCase[k] = c
      THEN UpperCase[CHOOSE k \in 1..26 : LowerCase[k] = c]
      ELSE c

\* every way of writing the word w in upper and lower case letters
Casings(w) ==
    {t \in [1..Len(w) -> {w[k] : k \in 1..Len(w)} \cup {UpperChar(w[k]) : k \in 1..Len(w)}] :
       \A k \in 1..Len(w) : t[k] \in {w[k], UpperChar(w[k])}}

\* target texts considered: paces, the open words in every casing, zones, others
PaceChars == {"0", "1", "7"}
PaceNumbers == BoundedSeq(PaceChars, MaxPaceDigits) \ {<<>>}
PaceSuffixes ==
    {<<>>, <<"/", "m", "i">>, <<"/", "k", "m">>, <<"m", "i">>, <<"k", "m">>,
     <<"/", "M", "I">>, <<"/">>, <<" ">>, <<"/", "m">>}
PaceTexts ==
    {m \o <<":">> \o sec \o u : m \in PaceNumbers, sec \in PaceNumbers, u \in PaceSuffixes}

TargetExamples ==
    {<<>>, <<"7", ":", "3", "0", "/", "m", "i">>, <<"5", ":", "0", "0", "/", "k", "m">>,
     <<"0", ":", "0", "0">>, <<"0", ":", "0", "0", "/", "m", "i">>,
     <<" ", "8", ":", "1", "5", " ">>, <<"Z", "o", "n", "e", " ", "3">>,
     <<"z", "o", "n", "e">>, <<"H", "R", " ", "z", "o", "n", "e", " ", "1", "0">>,
     <<"2", " ", "z", "o", "n", "e", "s">>, <<" ", "j", "o", "g">>,
     <<"g", "a", "r", "b", "a", "g", "e">>, <<"7", ":", "3", "0", " ", "/", "m", "i">>,
     <<"1", "2", ":", "0", "5">>, <<"9", ":", "5", "9">>, <<":", "3", "0">>, <<"7", ":">>}

TargetTexts == PaceTexts \cup UNION {Casings(w) : w \in OpenWords} \cup TargetExamples

InitTarget ==
    /\ ttext \in TargetTexts
    /\ tres = TargetNotCalled

IdleTarget ==
    /\ ttext = <<>>
    /\ tres = TargetNotCalled

\* target_type, target_value = self._parse_target(...)
CallParseTarget ==
    /\ tres = TargetNotCalled
    /\ tres' = ParseTarget(ttext)
    /\ UNCHANGED ttext

-----------------------------------------------------------------------------
(* get_activities and analyze_fitness *)

\* None
None == [defined |-> FALSE, val |-> 0]
Some(v) == [defined |-> TRUE, val |-> v]

\* raw activity records: typeKey, distance in metres, duration in seconds, averageHR
ActivityTypes == {"running", "cycling"}
RawDistances == {0, 5000, 10000}
RawDurations == {0, 1500}
RawHeartRates == {None, Some(0), Some(150)}
RawActivities ==
    [typeKey : ActivityTypes, distance : RawDistances, duration : RawDurations,
     averageHR : RawHeartRates]

\* "running" in activity_type.lower() or "run" in activity_type.lower()
IsRun(a) == a.typeKey = "running"

\* one entry of running_activities.  distance_km is carried in metres and
\* avg_pace_min_km in seconds per kilometre (the raw values considered make the
\* division exact); the pace is None unless distance > 0.
RunRecord(a) ==
    [distance_km |-> a.distance,
     duration_min |-> a.duration,
     avg_hr |-> a.averageHR,
     avg_pace_min_km |-> IF a.distance > 0 THEN Some((a.duration * 1000) \div a.distance)
                         ELSE None]

\* GarminClient.get_activities, after the endpoint has answered
RunningActivities(resp) ==
    LET runs == SelectSeq(resp, IsRun) IN [k \in 1..Len(runs) |-> RunRecord(runs[k])]

RECURSIVE SumOf(_)
SumOf(s) == IF s = <<>> THEN 0 ELSE s[1] + SumOf(Tail(s))

\* an optional aggregate, the value sum / n
Absent == [present |-> FALSE, sum |-> 0, n |-> 1]
Mean(values) == [present |-> TRUE, sum |-> SumOf(values), n |-> Len(values)]
Whole(v) == [present |-> TRUE, sum |-> v, n |-> 1]

\* `if a["avg_pace_min_km"]`, `if a["avg_hr"]`: the value's truth: neither None nor 0
IsTruthy(x) == x.defined /\ x.val # 0

\* [a[field] for a in activities if a[field]]
Kept(values) ==
    LET kept == SelectSeq(values, IsTruthy) IN [k \in 1..Len(kept) |-> kept[k].val]

\* activities[:10]
RecentRuns(acts) == SubSeq(acts, 1, IF Len(acts) < 10 THEN Len(acts) ELSE 10)

NoMetrics ==
    [has_data |-> FALSE, total_runs |-> Absent, avg_distance_km |-> Absent,
     total_distance_km |-> Absent, avg_pace_min_km |-> Absent, avg_hr |-> Absent,
     recent_runs |-> <<>>]

\* analyze_fitness
AnalyzeFitness(acts) ==
    IF acts = <<>> THEN NoMetrics
    ELSE LET dists == [k \in 1..Len(acts) |-> acts[k].distance_km]
             paces == Kept([k \in 1..Len(acts) |-> acts[k].avg_pace_min_km])
             hrs == Kept([k \in 1..Len(acts) |-> acts[k].avg_hr])
         IN  [has_data |-> TRUE,
              total_runs |-> Whole(Len(acts)),
              avg_distance_km |-> Mean(dists),
              total_distance_km |-> Whole(SumOf(dists)),
              avg_pace_min_km |-> IF paces # <<>> THEN Mean(paces) ELSE Absent,
              avg_hr |-> IF hrs # <<>> THEN Mean(hrs) ELSE Absent,
              recent_runs |-> RecentRuns(acts)]

InitFitness ==
    /\ raw \in BoundedSeq(RawActivities, MaxActivities)
    /\ activities = <<>>
    /\ metrics = NoMetrics

IdleFitness ==
    /\ raw = <<>>
    /\ activities = <<>>
    /\ metrics = NoMetrics

\* activities = garmin.get_activities(days=90), the endpoint answering
GetActivities ==
    /\ mpc = "fetch"
    /\ client
    /\ activities' = RunningActivities(raw)
    /\ mpc' = "analyze"
    /\ UNCHANGED <<raw, metrics, env, client, ending>>

\* fitness_data = analyze_fitness(activities), and the lines printed from it
CallAnalyzeFitness ==
    /\ mpc = "analyze"
    /\ metrics' = AnalyzeFitness(activities)
    /\ mpc' = "prompts"
    /\ UNCHANGED <<raw, activities, env, client, ending>>

-----------------------------------------------------------------------------
(* main *)

RequiredVars == {"GEMINI_API_KEY", "GARMIN_EMAIL", "GARMIN_PASSWORD"}

Running == [how |-> "running", code |-> 0, message |-> "none"]

\* console.print("[red]Error:[/red] ..."); sys.exit(1)
Fatal(message) == [how |-> "fatal", code |-> 1, message |-> message]

\* the "Success!" panel with created_count, then main returns
UploadSummary == [how |-> "summary", code |-> 0, message |-> "workouts uploaded"]

\* an exception that no handler of main catches: a traceback, exit code 1
Unhandled(exc) == [how |-> "unhandled", code |-> 1, message |-> exc]

\* the history endpoint's responses considered in a whole run
MainResponses ==
    BoundedSeq({a \in RawActivities :
                  a.distance = 5000 /\ a.duration = 1500 /\ a.averageHR = Some(150)}, 1)

InitMain ==
    /\ mpc = "config"
    /\ env \in SUBSET RequiredVars
    /\ client = FALSE
    /\ ending = Running

\* main not running; the session is authenticated
IdleMain(at) ==
    /\ mpc = at
    /\ env = RequiredVars
    /\ client = TRUE
    /\ ending = Running

\* missing = [v for v in required_vars if not os.getenv(v)]; if missing: ... sys.exit(1)
CheckConfig ==
    /\ mpc = "config"
    /\ IF env # RequiredVars
         THEN /\ ending' = Fatal("Missing environment variables")
              /\ mpc' = "exit"
         ELSE /\ mpc' = "auth"
              /\ UNCHANGED ending
    /\ UNCHANGED <<env, client>>

\* garmin.authenticate(console) returns: the saved tokens resumed, or a fresh login
AuthenticateOk ==
    /\ mpc = "auth"
    /\ client' = TRUE
    /\ mpc' = "fetch"
    /\ UNCHANGED <<env, ending>>

\* garmin.authenticate(console) raises: except Exception -> message, sys.exit(1)
AuthenticateFail ==
    /\ mpc = "auth"
    /\ ending' = Fatal("Failed to connect to Garmin")
    /\ mpc' = "exit"
    /\ UNCHANGED <<env, client>>

\* garmin.get_activities(days=90) raises (the endpoint call fails, or a record cannot
\* be converted): the call is in no try block
GetActivitiesFail ==
    /\ mpc = "fetch"
    /\ \E exc \in {"ConnectionError", "TypeError"} : ending' = Unhandled(exc)
    /\ mpc' = "exit"
    /\ UNCHANGED <<env, client>>

Answers == {"", "given"}

\* the three required prompts: an empty answer -> message, sys.exit(1)
AskPrompts ==
    /\ mpc = "prompts"
    /\ \E distance \in Answers, goal_pace \in Answers, race_date \in Answers :
         IF distance = "" THEN ending' = Fatal("Race distance is required") /\ mpc' = "exit"
         ELSE IF goal_pace = "" THEN ending' = Fatal("Goal pace is required") /\ mpc' = "exit"
         ELSE IF race_date = "" THEN ending' = Fatal("Race date is required") /\ mpc' = "exit"
         ELSE mpc' = "generate" /\ UNCHANGED ending
    /\ UNCHANGED <<env, client>>

\* training_plan = generate_training_plan(...) returns; push_all_workouts starts:
\* total = len(training_plan); created_count = 0; failed = []
GenerateOk ==
    /\ mpc = "generate"
    /\ plan' \in Plans
    /\ pc' = "loop"
    /\ mpc' = "push"
    /\ UNCHANGED <<i, attempt, workout_id, created_count, failed, calls, hist>>
    /\ UNCHANGED <<env, client, ending>>

\* generate_training_plan(...) raises: except Exception -> message, sys.exit(1)
GenerateFail ==
    /\ mpc = "generate"
    /\ ending' = Fatal("Failed to generate plan")
    /\ mpc' = "exit"
    /\ UNCHANGED <<env, client>>

\* created_count = garmin.push_all_workouts(training_plan, console) returned
PrintSummary ==
    /\ mpc = "push"
    /\ pc = "done"
    /\ ending' = UploadSummary
    /\ mpc' = "exit"
    /\ UNCHANGED <<env, client>>

-----------------------------------------------------------------------------
(* Properties of push_all_workouts *)

Returned == pc = "done"

\* the workout most recently finished is number i, and `calls` is its whole history
Finished == pc \in {"loop", "done"} /\ i >= 1

Last(s) == s[Len(s)]

Failures == {k \in 1..Len(hist) : ~hist[k].ok}

RECURSIVE FailedNames(_)
\* names of the failed workouts among the first k, in plan order
FailedNames(k) ==
    IF k = 0 THEN <<>>
    ELSE IF hist[k].ok THEN FailedNames(k - 1)
         ELSE Append(FailedNames(k - 1), NameOf(plan[k]))

AllCreatesFailed == \A k \in 1..Len(hist) : hist[k].createOks = 0

\* C1: when every create call fails, push makes exactly 3 create attempts for each
\* workout and returns with created_count = 0 and one failure entry per workout.
C1_AllCreatesFail ==
    (Returned /\ AllCreatesFailed) =>
        /\ created_count = 0
        /\ Len(failed) = Len(plan)
        /\ Len(hist) = Len(plan)
        /\ \A k \in 1..Len(plan) : hist[k].creates = 3

C1_Witness ==
    /\ Returned
    /\ AllCreatesFailed
    /\ Len(plan) = 2
    /\ Len(failed) = 2

\* C2: workouts are processed in plan order, one at a time, each one to success or to
\* its 3rd failed attempt, later ones also after earlier failures; at return
\* created_count is the number of workouts that succeeded and failed holds, in plan
\* order, the names of exactly those that did not.
C2_SequentialBestEffort ==
    /\ \A k \in 1..Len(hist) :
         /\ hist[k].w = k
         /\ hist[k].creates \in 1..3
         /\ hist[k].ok \/ hist[k].creates = 3
    /\ pc \in {"create", "schedule"} => i >= 1 /\ Len(hist) = i - 1
    /\ pc \in {"loop", "done"} => Len(hist) = i
    /\ Returned =>
         /\ Len(hist) = Len(plan)
         /\ created_count = Cardinality({k \in 1..Len(hist) : hist[k].ok})
         /\ Len(failed) = Cardinality(Failures)
         /\ [k \in 1..Len(failed) |-> failed[k][1]] = FailedNames(Len(hist))
         /\ created_count + Len(failed) = Len(plan)

C2_Witness ==
    /\ Returned
    /\ Len(plan) = 2
    /\ ~hist[1].ok
    /\ hist[2].ok
    /\ plan[1].name # plan[2].name

\* C3: a failed create or schedule call before the 3rd attempt is followed by a fresh
\* create call for the same workout; after the 3rd failed attempt the workout is left
\* and exactly one failure entry, carrying the 3rd attempt's error, is recorded.
C3_RetryWholeSequence ==
    /\ \A k \in 1..(Len(calls) - 1) :
         IF calls[k].ok
           THEN calls[k].op = "create" /\ calls[k + 1].op = "schedule"
                /\ calls[k + 1].att = calls[k].att
           ELSE calls[k + 1].op = "create" /\ calls[k + 1].att = calls[k].att + 1
    /\ \A k \in 1..Len(calls) : calls[k].att \in 0..2
    /\ (calls # <<>> /\ ~Last(calls).ok /\ Last(calls).att < 2) =>
         pc = "create" /\ attempt = Last(calls).att + 1
    /\ (calls # <<>> /\ ~Last(calls).ok /\ Last(calls).att = 2) =>
         /\ Finished
         /\ ~hist[i].ok
         /\ Last(failed) = <<NameOf(plan[i]), Last(calls).err>>
    /\ Len(failed) = Cardinality(Failures)

C3_Witness ==
    /\ Finished
    /\ Len(calls) = 5
    /\ ~Last(calls).ok
    /\ Last(calls).op = "schedule"
    /\ calls[1].op = "create" /\ ~calls[1].ok
    /\ calls[1].err # Last(calls).err
    /\ calls[3].err # Last(calls).err

\* C4: a counted workout that has a date was created and then scheduled, with the
\* identifier its create call returned, in the counted attempt, whatever the
\* successful create response was.
C4_CountedImpliesScheduled ==
    (Finished /\ hist[i].ok /\ HasDate(plan[i])) =>
        /\ Len(calls) >= 2
        /\ calls[Len(calls) - 1].op = "create"
        /\ calls[Len(calls) - 1].ok
        /\ Last(calls).op = "schedule"
        /\ Last(calls).ok
        /\ Last(calls).att = calls[Len(calls) - 1].att
        /\ Last(calls).id = calls[Len(calls) - 1].id
        /\ Last(calls).date = plan[i].date

Creates(log) == {k \in 1..Len(log) : log[k].op = "create"}

Schedules(log) == {k \in 1..Len(log) : log[k].op = "schedule"}

\* the call at position k of log ended an attempt with success
EndsWithSuccess(log, k) ==
    /\ log[k].ok
    /\ log[k].op = "create" => (k = Len(log) /\ pc # "schedule")

RECURSIVE CreatesUpTo(_)
\* create calls made for the first k workouts
CreatesUpTo(k) == IF k = 0 THEN 0 ELSE CreatesUpTo(k - 1) + hist[k].creates

\* C11: for each workout at most 3 create and at most 3 schedule calls are made; a
\* schedule call comes only directly after a create call of the same attempt that
\* returned a non-empty identifier, and passes that identifier; after a successful
\* attempt no further call is made for the workout; so at most 3N create calls are
\* made in all, and between 0 and 3 creations succeed for one plan entry.
C11_BoundedCalls ==
    /\ Cardinality(Creates(calls)) <= 3
    /\ Cardinality(Schedules(calls)) <= 3
    /\ \A k \in Schedules(calls) :
         /\ k > 1
         /\ calls[k - 1].op = "create"
         /\ calls[k - 1].ok
         /\ calls[k - 1].att = calls[k].att
         /\ calls[k - 1].id # NoId
         /\ calls[k].id = calls[k - 1].id
    /\ pc = "schedule" =>
         /\ calls # <<>>
         /\ Last(calls).op = "create"
         /\ Last(calls).ok
         /\ Last(calls).id # NoId
         /\ workout_id = Last(calls).id
    /\ \A k \in 1..Len(calls) :
         EndsWithSuccess(calls, k) => (k = Len(calls) /\ Finished /\ hist[i].ok)
    /\ \A k \in 1..Len(hist) : hist[k].creates \in 1..3 /\ hist[k].createOks \in 0..3
    /\ CreatesUpTo(Len(hist))
         + (IF pc \in {"create", "schedule"} THEN Cardinality(Creates(calls)) ELSE 0)
         <= 3 * Len(plan)
    /\ Returned => Len(hist) = Len(plan)

C11_Witness ==
    /\ Returned
    /\ Len(plan) = 2
    /\ CreatesUpTo(2) = 6
    /\ hist[2].createOks = 3
    /\ Cardinality(Schedules(calls)) = 3
    /\ hist[1].ok

-----------------------------------------------------------------------------
(* Properties of _parse_duration *)

DurationCalled == dres.kind # "pending"

\* C5: _parse_duration is total: for every text it returns a distance or a time
\* condition and never raises.
C5_ParseDurationTotal == DurationCalled => dres.kind \in {"distance", "time"}

\* the same value: a.mant / 10^a.exp = b.mant / 10^b.exp
SameValue(a, b) == a.mant * Pow10(b.exp) = b.mant * Pow10(a.exp)

\* a decimal number: digits with at most one dot
IsNumber(t) ==
    /\ t # <<>>
    /\ \A k \in 1..Len(t) : t[k] \in Digits \cup {"."}
    /\ Cardinality({k \in 1..Len(t) : t[k] = "."}) <= 1
    /\ \E k \in 1..Len(t) : t[k] \in Digits

IsDigits(t) == \A k \in 1..Len(t) : t[k] \in Digits

\* the text t as a number part, blanks and a unit of `units`
NumberWithUnit(t, units) ==
    \E n \in 1..Len(t) : \E u \in units :
        /\ IsNumber(SubSeq(t, 1, n))
        /\ Len(t) - n >= Len(u)
        /\ Drop(t, Len(t) - Len(u)) = u
        /\ \A k \in (n + 1)..(Len(t) - Len(u)) : IsSpace(t[k])

NumberPart(t) == SubSeq(t, 1, PrefixLen(t, Digits \cup {"."}))

ColonAt(t) == CHOOSE k \in 1..Len(t) : t[k] = ":"

\* minutes:seconds, the seconds possibly absent
IsClock(t) ==
    /\ Cardinality({k \in 1..Len(t) : t[k] = ":"}) = 1
    /\ ColonAt(t) > 1
    /\ IsDigits(SubSeq(t, 1, ColonAt(t) - 1))
    /\ IsDigits(Drop(t, ColonAt(t)))

\* the result the five rules give, the first matching rule winning
RuleResult(text) ==
    LET t == Lower(Strip(text))
        v == FloatOf(NumberPart(t))
    IN  IF NumberWithUnit(t, {<<"m">>}) THEN Distance(v.mant, v.exp)
        ELSE IF NumberWithUnit(t, {<<"k", "m">>}) THEN Distance(v.mant * 1000, v.exp)
        ELSE IF NumberWithUnit(t, DistUnits) THEN Distance(v.mant * 160934, v.exp + 2)
        ELSE IF NumberWithUnit(t, SecondUnits) THEN Time(v.mant \div Pow10(v.exp))
        ELSE IF NumberWithUnit(t, TimeUnits) THEN Time((v.mant * 60) \div Pow10(v.exp))
        ELSE IF IsClock(t)
          THEN Time(DigitsVal(SubSeq(t, 1, ColonAt(t) - 1)) * 60
                    + DigitsVal(Drop(t, ColonAt(t))))
        ELSE IF IsNumber(t) THEN Time((v.mant * 60) \div Pow10(v.exp))
        ELSE Time(600)

\* C8: _parse_duration returns the result of the first matching rule: distance,
\* time with a unit, minutes:seconds, bare number (number x 60, then truncated),
\* otherwise Time(600).
C8_FirstMatchingRule ==
    DurationCalled =>
        /\ dres.kind = RuleResult(dtext).kind
        /\ SameValue(dres, RuleResult(dtext))

-----------------------------------------------------------------------------
(* Properties of _parse_target *)

TargetCalled == tres.kind # "pending"

\* C6: _parse_target is total: for every text it returns no target, a pace range or
\* a heart-rate zone and never raises.
C6_ParseTargetTotal ==
    TargetCalled => tres.kind \in {"no.target", "pace.zone", "heart.rate.zone"}

\* the unit a pace text M:SS, M:SS/mi or M:SS/km ends with (<<>> when none)
StatedUnit(t) ==
    IF Len(t) >= 3 /\ Drop(t, Len(t) - 3) \in {<<"/", "m", "i">>, <<"/", "k", "m">>}
      THEN Drop(t, Len(t) - 2)
      ELSE <<>>

PaceClock(t) == IF StatedUnit(t) = <<>> THEN t ELSE SubSeq(t, 1, Len(t) - 3)

\* M:SS, M:SS/mi or M:SS/km
IsPaceText(t) ==
    /\ IsClock(PaceClock(t))
    /\ Drop(PaceClock(t), ColonAt(t)) # <<>>

PaceMinutes(t) == DigitsVal(SubSeq(t, 1, ColonAt(t) - 1))

PaceSeconds(t) == DigitsVal(Drop(PaceClock(t), ColonAt(t)))

\* 1000 m for km, or for no unit and M < 10; 1609.34 m otherwise; in centimetres
ClaimedDistance(t) ==
    IF StatedUnit(t) = <<"k", "m">> \/ (StatedUnit(t) = <<>> /\ PaceMinutes(t) < 10)
      THEN 100000
      ELSE 160934

RECURSIVE Gcd(_, _)
Gcd(a, b) == IF b = 0 THEN a ELSE Gcd(b, a % b)

\* the fraction f in lowest terms
Reduced(f) == [num |-> f.num \div Gcd(f.num, f.den), den |-> f.den \div Gcd(f.num, f.den)]

\* the fraction f is pct percent of cm centimetres per `seconds` seconds, in m/s
IsPercentOfSpeed(f, pct, cm, seconds) ==
    /\ f.den > 0
    /\ Reduced(f) = Reduced([num |-> pct * cm, den |-> 100 * 100 * seconds])

\* f > g, for fractions with positive denominators
Greater(f, g) ==
    IF f.den = g.den THEN f.num > g.num ELSE f.num * g.den > g.num * f.den

\* C9: a pace text M:SS[/mi|/km] with a non-zero time gives a pace range with
\* low = 1.05 x speed > high = 0.95 x speed, speed = unit distance / (60 M + SS), the
\* unit distance 1000 m for km or for no unit and M < 10, else 1609.34 m; "", "open",
\* "jog" and "easy" in any letter case give no target.
C9_PaceBand ==
    TargetCalled =>
        /\ (IsPaceText(ttext) /\ 60 * PaceMinutes(ttext) + PaceSeconds(ttext) > 0) =>
             LET total == 60 * PaceMinutes(ttext) + PaceSeconds(ttext) IN
             /\ tres.kind = "pace.zone"
             /\ IsPercentOfSpeed(tres.low, 105, ClaimedDistance(ttext), total)
             /\ IsPercentOfSpeed(tres.high, 95, ClaimedDistance(ttext), total)
             /\ Greater(tres.low, tres.high)
        /\ (ttext = <<>> \/ Lower(ttext) \in OpenWords) => tres = NoTarget

C9_Witness ==
    /\ TargetCalled
    /\ ttext = <<"1", "0", ":", "0", "7">>
    /\ tres.kind = "pace.zone"

-----------------------------------------------------------------------------
(* Properties of analyze_fitness *)

Analyzed == mpc = "prompts"

\* x is not None
IsDefined(x) == x.defined

\* the values of the records whose value is defined
DefinedValues(values) ==
    LET kept == SelectSeq(values, IsDefined) IN [k \in 1..Len(kept) |-> kept[k].val]

\* the optional aggregate m is the mean of the defined ones among `values`, absent
\* exactly when none is defined
IsMeanOfDefined(m, values) ==
    /\ m.present <=> DefinedValues(values) # <<>>
    /\ m.present =>
         m.sum * Len(DefinedValues(values)) = SumOf(DefinedValues(values)) * m.n

\* C10: for a non-empty activity set the pace mean and the heart-rate mean count
\* exactly the records whose value is defined, whatever the value (0 included), and
\* are absent iff no record has one; for an empty set has_data is false and there is
\* no aggregate.
C10_MeansOverDefined ==
    Analyzed =>
        IF activities = <<>>
          THEN metrics = NoMetrics
          ELSE /\ metrics.has_data
               /\ IsMeanOfDefined(metrics.avg_pace_min_km,
                                  [k \in 1..Len(activities) |-> activities[k].avg_pace_min_km])
               /\ IsMeanOfDefined(metrics.avg_hr,
                                  [k \in 1..Len(activities) |-> activities[k].avg_hr])

-----------------------------------------------------------------------------
(* Properties of main *)

\* C7: every run ends with a fatal-error message and a non-zero exit code, or with
\* the upload summary; no failure of an external call leaves main as an unhandled
\* exception.
C7_NoUnhandledFault ==
    mpc = "exit" =>
        \/ ending.how = "fatal" /\ ending.code # 0
        \/ ending.how = "summary"

-----------------------------------------------------------------------------
(* Specifications *)

\* push_all_workouts on any plan, the session authenticated
Init == InitPush /\ IdleDuration /\ IdleTarget /\ IdleFitness /\ IdleMain("push")

Next ==
    \/ LoopNext /\ UNCHANGED <<durVars, tgtVars, fitVars, mainVars>>
    \/ CreateOk /\ UNCHANGED <<durVars, tgtVars, fitVars, mainVars>>
    \/ CreateFail /\ UNCHANGED <<durVars, tgtVars, fitVars, mainVars>>
    \/ ScheduleOk /\ UNCHANGED <<durVars, tgtVars, fitVars, mainVars>>
    \/ ScheduleFail /\ UNCHANGED <<durVars, tgtVars, fitVars, mainVars>>

Spec == Init /\ [][Next]_vars

\* _parse_duration on any text
InitParseDuration ==
    IdlePush /\ InitDuration /\ IdleTarget /\ IdleFitness /\ IdleMain("idle")

NextParseDuration == CallParseDuration /\ UNCHANGED <<pushVars, tgtVars, fitVars, mainVars>>

SpecDuration == InitParseDuration /\ [][NextParseDuration]_vars

\* _parse_target on any text
InitParseTarget ==
    IdlePush /\ IdleDuration /\ InitTarget /\ IdleFitness /\ IdleMain("idle")

NextParseTarget == CallParseTarget /\ UNCHANGED <<pushVars, durVars, fitVars, mainVars>>

SpecTarget == InitParseTarget /\ [][NextParseTarget]_vars

\* get_activities, then analyze_fitness, on any response of the history endpoint
InitSummarize ==
    IdlePush /\ IdleDuration /\ IdleTarget /\ InitFitness /\ IdleMain("fetch")

NextSummarize ==
    \/ GetActivities /\ UNCHANGED <<pushVars, durVars, tgtVars>>
    \/ CallAnalyzeFitness /\ UNCHANGED <<pushVars, durVars, tgtVars>>

SpecFitness == InitSummarize /\ [][NextSummarize]_vars

\* a whole run of main
InitRun ==
    /\ IdlePush /\ IdleDuration /\ IdleTarget
    /\ raw \in MainResponses /\ activities = <<>> /\ metrics = NoMetrics
    /\ InitMain

NextRun ==
    \/ CheckConfig /\ UNCHANGED <<pushVars, durVars, tgtVars, fitVars>>
    \/ AuthenticateOk /\ UNCHANGED <<pushVars, durVars, tgtVars, fitVars>>
    \/ AuthenticateFail /\ UNCHANGED <<pushVars, durVars, tgtVars, fitVars>>
    \/ GetActivities /\ UNCHANGED <<pushVars, durVars, tgtVars>>
    \/ GetActivitiesFail /\ UNCHANGED <<pushVars, durVars, tgtVars, fitVars>>
    \/ CallAnalyzeFitness /\ UNCHANGED <<pushVars, durVars, tgtVars>>
    \/ AskPrompts /\ UNCHANGED <<pushVars, durVars, tgtVars, fitVars>>
    \/ GenerateOk /\ UNCHANGED <<durVars, tgtVars, fitVars>>
    \/ GenerateFail /\ UNCHANGED <<pushVars, durVars, tgtVars, fitVars>>
    \/ Next
    \/ PrintSummary /\ UNCHANGED <<pushVars, durVars, tgtVars, fitVars>>

SpecMain == InitRun /\ [][NextRun]_vars

====
